---- MODULE Spec2Model ----
(***************************************************************************)
(* A model of the invoicex inference service (src/invoicex/app).           *)
(*                                                                         *)
(* The service is a set of mostly independent components, so the module    *)
(* holds one specification per component.  All of them share one variable  *)
(* tuple; a component's specification leaves the other components'         *)
(* variables at their initial values.                                      *)
(*                                                                         *)
(*   SpecStorage  storage.insert_raw_or_get as called by concurrent        *)
(*                /upload and /predict requests                            *)
(*   SpecAnomaly  anomaly.score_anomaly                                    *)
(*   SpecEtl      schema validation followed by etl.normalize              *)
(*   SpecModels   the lazily loaded model artifacts of classify.py,        *)
(*                explain.py and anomaly.py under concurrent requests      *)
(*   SpecTax      tax.classify_vat                                         *)
(*   SpecExplain  explain.explain_for_payload                              *)
(*   SpecLanguage language.detect_language                                 *)
(*   SpecDate     etl._parse_date_localized                                *)
(*   SpecFloat    etl._to_float                                            *)
(*   SpecPipeline detect_language, normalize and classify_vat as /predict  *)
(*                chains them on one submission                            *)
(*   SpecPredict  concurrent /predict requests: insert_raw_or_get, the     *)
(*                response body, upsert_processed                          *)
(*                                                                         *)
(* Text is modelled as a sequence of one-character strings, so that        *)
(* strip(), upper(), int() and float() are computed, not assumed.          *)
(***************************************************************************)
EXTENDS Integers, Sequences, FiniteSets, TLC

VARIABLES
    \* ---- storage (SpecStorage)
    rows,        \* the invoices table: a set of rows [id, key]
    spc,         \* request -> its position in insert_raw_or_get
    skey,        \* request -> the (vendor_name, invoice_number) it carries
    sret,        \* request -> what insert_raw_or_get returned
    \* ---- anomaly (SpecAnomaly)
    an_in,       \* the arguments of score_anomaly
    an_out,      \* its result
    \* ---- etl (SpecEtl)
    etl_in,      \* the raw submission and the language
    etl_out,     \* the result of schema validation + normalize
    \* ---- model artifacts (SpecModels)
    avail,       \* artifact file -> whether joblib.load succeeds right now
    cache,       \* module cache (classify._VEC, ...) -> "None" | "Loaded"
    loads,       \* artifact file -> number of completed joblib.load calls
    mpc,         \* thread -> position in predict_type / explain_for_payload
    mloc,        \* thread -> locals of the call in progress
    mcalls,      \* thread -> number of requests started
    \* ---- tax (SpecTax)
    tax_in,      \* the record handed to classify_vat
    tax_out,     \* its result
    \* ---- one call of a function (SpecExplain, SpecLanguage, SpecDate,
    \* ---- SpecFloat, SpecPipeline)
    call_in,     \* the arguments of the call
    call_out,    \* its result
    \* ---- /predict on top of the storage (SpecPredict)
    ppc,         \* request -> how far /predict got after insert_raw_or_get
    pout,        \* request -> the response body it built
    processed,   \* record id -> the processed result stored for the row
    plast        \* key -> the request whose /predict completed last

storageVars == <<rows, spc, skey, sret>>
anomalyVars == <<an_in, an_out>>
etlVars     == <<etl_in, etl_out>>
modelVars   == <<avail, cache, loads, mpc, mloc, mcalls>>
taxVars     == <<tax_in, tax_out>>
callVars    == <<call_in, call_out>>
predictVars == <<ppc, pout, processed, plast>>
vars == <<rows, spc, skey, sret, an_in, an_out, etl_in, etl_out,
          avail, cache, loads, mpc, mloc, mcalls, tax_in, tax_out,
          call_in, call_out, ppc, pout, processed, plast>>

Min(a, b) == IF a < b THEN a ELSE b
Max(a, b) == IF a > b THEN a ELSE b

(***************************************************************************)
(* STORAGE: storage.py insert_raw_or_get                                   *)
(***************************************************************************)

\* Number of concurrent requests and of distinct (vendor_name, invoice_number).
MaxRequests == 3
MaxKeys == 2

Requests == 1..MaxRequests
Keys == 1..MaxKeys

NoRet == [id |-> 0, created |-> FALSE, raised |-> FALSE]

\* uuid.uuid4(): a fresh id per call; request r's call draws id r.
NewId(r) == r

\* UniqueConstraint("vendor_name", "invoice_number"): an INSERT of a second
\* row with the same key raises IntegrityError.
UniqueViolationNever(rws, key) == FALSE
UniqueViolation(rws, key) == \E x \in rws : x.key = key

\* select(InvoiceRow.id).where(vendor_name == ..., invoice_number == ...)
SelectIds(rws, key) == {x.id : x \in {y \in rws : y.key = key}}

StorageIdle ==
    /\ rows = {}
    /\ spc = [r \in Requests |-> "idle"]
    /\ skey = [r \in Requests |-> 1]
    /\ sret = [r \in Requests |-> NoRet]

\* A request (/upload -> insert_raw, or /predict) enters insert_raw_or_get
\* with a payload carrying key k; the row object is built with a fresh id.
CallInsert(r, k) ==
    /\ spc[r] = "idle"
    /\ spc' = [spc EXCEPT ![r] = "insert"]
    /\ skey' = [skey EXCEPT ![r] = k]
    /\ UNCHANGED <<rows, sret>>

\* with SessionLocal.begin() as s: s.add(row)   -- one transaction.
\* Success: return (iid, True).  IntegrityError: go on to the SELECT.
TryInsert(r) ==
    /\ spc[r] = "insert"
    /\ IF UniqueViolation(rows, skey[r])
         THEN /\ spc' = [spc EXCEPT ![r] = "select"]
              /\ UNCHANGED <<rows, sret>>
         ELSE /\ rows' = rows \cup {[id |-> NewId(r), key |-> skey[r]]}
              /\ sret' = [sret EXCEPT ![r] =
                            [id |-> NewId(r), created |-> TRUE, raised |-> FALSE]]
              /\ spc' = [spc EXCEPT ![r] = "done"]
    /\ UNCHANGED skey

\* except IntegrityError: fetch the existing row id; re-raise if none.
SelectExisting(r) ==
    /\ spc[r] = "select"
    /\ LET ids == SelectIds(rows, skey[r]) IN
         IF ids # {}
           THEN \E i \in ids :
                  sret' = [sret EXCEPT ![r] =
                             [id |-> i, created |-> FALSE, raised |-> FALSE]]
           ELSE sret' = [sret EXCEPT ![r] =
                             [id |-> 0, created |-> FALSE, raised |-> TRUE]]
    /\ spc' = [spc EXCEPT ![r] = "done"]
    /\ UNCHANGED <<rows, skey>>

(***************************************************************************)
(* ANOMALY: anomaly.py score_anomaly                                       *)
(*                                                                         *)
(* Scores are in hundredths: 50 is 0.50.  The outlier model's decision     *)
(* score is an input: the trained IsolationForest is a black box whose     *)
(* decision_function may return any finite value.                          *)
(***************************************************************************)

\* The decision scores tried are -MaxRawScore..MaxRawScore (hundredths), and
\* missing_count runs over 0..MaxMissing.
MaxRawScore == 120
MaxMissing == 10

BaseOffset == 50        \* 0.5 - raw
DuplicateBump == 25     \* risk += 0.25
MissingBump == 10       \* risk += 0.10 * min(missing_count, 5)
MissingCap == 5
RiskCap == 99           \* np.clip(risk, 0.0, 0.99)
ConsistentBelow == 15   \* if risk < 0.15 and not reasons

\* np.clip(x, lo, hi)
Clip(x, lo, hi) == IF x < lo THEN lo ELSE IF x > hi THEN hi ELSE x

\* base_risk = float(np.clip(0.5 - raw, 0.0, 1.0))
BaseRisk(raw) == Clip(BaseOffset - raw, 0, 100)

\* risk = float(np.clip(risk, 0.0, 0.99))
FinalClipNoRoom(risk) == Clip(risk, 0, 100)
FinalClip(risk) == Clip(risk, 0, RiskCap)

ReasonDuplicate == [kind |-> "duplicate", n |-> 0]
ReasonMissing(n) == [kind |-> "missing", n |-> n]
ReasonConsistent == [kind |-> "consistent", n |-> 0]

\* The two rules in the other order.
RuleBumpsMissingFirst(raw, is_duplicate, missing_count) ==
    LET r0 == BaseRisk(raw)
        r1 == IF missing_count > 0
                THEN r0 + MissingBump * Min(missing_count, MissingCap) ELSE r0
        s1 == IF missing_count > 0 THEN <<ReasonMissing(missing_count)>> ELSE <<>>
        r2 == IF is_duplicate THEN r1 + DuplicateBump ELSE r1
        s2 == IF is_duplicate THEN Append(s1, ReasonDuplicate) ELSE s1
    IN [risk |-> r2, reasons |-> s2]

\* The rule bumps, in order: the risk before the final clip and the reasons.
RuleBumps(raw, is_duplicate, missing_count) ==
    LET r0 == BaseRisk(raw)
        r1 == IF is_duplicate THEN r0 + DuplicateBump ELSE r0
        s1 == IF is_duplicate THEN <<ReasonDuplicate>> ELSE <<>>
        r2 == IF missing_count > 0
                THEN r1 + MissingBump * Min(missing_count, MissingCap) ELSE r1
        s2 == IF missing_count > 0
                THEN Append(s1, ReasonMissing(missing_count)) ELSE s1
    IN [risk |-> r2, reasons |-> s2]

\* if risk < 0.15 and not reasons: reasons.append("Looks consistent ...")
DefaultReason(risk, reasons) ==
    IF risk < ConsistentBelow /\ reasons = <<>>
      THEN Append(reasons, ReasonConsistent) ELSE reasons

score_anomaly(raw, is_duplicate, missing_count) ==
    LET b == RuleBumps(raw, is_duplicate, missing_count)
        risk == FinalClip(b.risk)
    IN [done |-> TRUE, score |-> risk, unclipped |-> b.risk,
        reasons |-> DefaultReason(risk, b.reasons)]

AnomalyInputs ==
    [raw : (-MaxRawScore)..MaxRawScore, is_duplicate : BOOLEAN,
     missing_count : 0..MaxMissing]

NoAnomalyOut == [done |-> FALSE, score |-> 0, unclipped |-> 0, reasons |-> <<>>]

AnomalyIdle ==
    /\ an_in = [raw |-> 0, is_duplicate |-> FALSE, missing_count |-> 0]
    /\ an_out = NoAnomalyOut

ScoreAnomaly ==
    /\ ~an_out.done
    /\ an_out' = score_anomaly(an_in.raw, an_in.is_duplicate, an_in.missing_count)
    /\ UNCHANGED an_in

(***************************************************************************)
(* TEXT                                                                    *)
(*                                                                         *)
(* A Python str is a sequence of code points, each written as a TLA+       *)
(* string: "7", "e", " ", ...  Code points outside ASCII have spelled      *)
(* names: "ar0".."ar9" are the Arabic-Indic digits U+0660..U+0669, "ar."   *)
(* is the Arabic decimal separator U+066B and "ar," the Arabic thousands   *)
(* separator U+066C.  "0{309}" stands for a run of 309 ASCII zeros: it is  *)
(* how a digit string beyond the range of a float is written down.  It is  *)
(* used in quantity strings only.                                          *)
(***************************************************************************)

AsciiDigits == <<"0", "1", "2", "3", "4", "5", "6", "7", "8", "9">>
ArabicIndicDigits ==
    <<"ar0", "ar1", "ar2", "ar3", "ar4", "ar5", "ar6", "ar7", "ar8", "ar9">>
ARABIC_INDIC_CHARS == {ArabicIndicDigits[i] : i \in 1..10}
ZeroRun == "0{309}"

IsAsciiDigit(c) == \E i \in 1..10 : AsciiDigits[i] = c
IsArabicDigit(c) == c \in ARABIC_INDIC_CHARS
\* What Python's int(), float() and the regex class \d take as a decimal digit.
IsDigit(c) == IsAsciiDigit(c) \/ IsArabicDigit(c) \/ c = ZeroRun
DigitValue(c) ==
    IF c = ZeroRun THEN 0
    ELSE IF IsAsciiDigit(c) THEN (CHOOSE i \in 1..10 : AsciiDigits[i] = c) - 1
    ELSE (CHOOSE i \in 1..10 : ArabicIndicDigits[i] = c) - 1

IsSpace(c) == c = " "

\* str.strip()
RECURSIVE LStrip(_)
LStrip(s) == IF s # <<>> /\ IsSpace(Head(s)) THEN LStrip(Tail(s)) ELSE s
RECURSIVE RStrip(_)
RStrip(s) ==
    IF s # <<>> /\ IsSpace(s[Len(s)]) THEN RStrip(SubSeq(s, 1, Len(s) - 1)) ELSE s
PyStrip(s) == RStrip(LStrip(s))

\* etl._strip: str(s or "").strip()
_strip(s) == PyStrip(s)

\* str.upper() on the letters that occur in the inputs
LowerLetters == <<"a", "d", "e", "r", "s", "u">>
UpperLetters == <<"A", "D", "E", "R", "S", "U">>
UpperChar(c) ==
    IF \E i \in 1..Len(LowerLetters) : LowerLetters[i] = c
      THEN UpperLetters[CHOOSE i \in 1..Len(LowerLetters) : LowerLetters[i] = c]
      ELSE c
PyUpper(s) == [i \in 1..Len(s) |-> UpperChar(s[i])]

\* s.translate(ARABIC_INDIC)
ArToAsciiChar(c) ==
    IF IsArabicDigit(c) THEN AsciiDigits[DigitValue(c) + 1] ELSE c
_ar_digits_to_ascii(s) == [i \in 1..Len(s) |-> ArToAsciiChar(s[i])]

\* s.replace(x, "") and s.replace(x, y) for one-character x, y
RemoveChar(s, x) == SelectSeq(s, LAMBDA c : c # x)
ReplaceChar(s, x, y) == [i \in 1..Len(s) |-> IF s[i] = x THEN y ELSE s[i]]

\* " ".join(parts)
RECURSIVE JoinSpace(_)
JoinSpace(parts) ==
    IF parts = <<>> THEN <<>>
    ELSE IF Len(parts) = 1 THEN parts[1]
    ELSE parts[1] \o <<" ">> \o JoinSpace(Tail(parts))

(***************************************************************************)
(* NUMBERS                                                                 *)
(*                                                                         *)
(* A float is a fixed-point integer in units of 10^-MaxDecimals; the       *)
(* inputs carry at most MaxDecimals fractional digits.  A Python int is    *)
(* [big, v]: big marks an int beyond the range of a float (its digit       *)
(* string held a nonzero digit before a "0{309}" run), v is the value,     *)
(* or the sign when big.                                                   *)
(***************************************************************************)

MaxDecimals == 2

RECURSIVE Pow10(_)
Pow10(n) == IF n = 0 THEN 1 ELSE 10 * Pow10(n - 1)
Scale == Pow10(MaxDecimals)

IsSign(c) == c = "-" \/ c = "+"
AllDigits(s) == \A i \in 1..Len(s) : IsDigit(s[i])

\* The value of a digit string, left to right.
RECURSIVE DigitsValue(_, _)
DigitsValue(s, acc) ==
    IF s = <<>> THEN acc
    ELSE LET c == Head(s) IN
         IF c = ZeroRun
           THEN DigitsValue(Tail(s),
                    [big |-> acc.big \/ acc.v # 0, v |-> acc.v])
           ELSE DigitsValue(Tail(s),
                    [big |-> acc.big, v |-> acc.v * 10 + DigitValue(c)])

IntOfDigits(s) == DigitsValue(s, [big |-> FALSE, v |-> 0])

\* int(str): whitespace stripped, an optional sign, one or more digits.
PyIntOfStr(s) ==
    LET t == PyStrip(s)
        neg == t # <<>> /\ t[1] = "-"
        body == IF t # <<>> /\ IsSign(t[1]) THEN Tail(t) ELSE t
        d == IntOfDigits(body)
    IN IF body = <<>> \/ ~AllDigits(body)
         THEN [ok |-> FALSE, big |-> FALSE, v |-> 0]
         ELSE [ok |-> TRUE, big |-> d.big,
               v |-> IF d.big THEN (IF neg THEN -1 ELSE 1)
                     ELSE IF neg THEN -d.v ELSE d.v]

IndexOf(s, x) ==
    IF \E i \in 1..Len(s) : s[i] = x
      THEN CHOOSE i \in 1..Len(s) : s[i] = x /\ \A j \in 1..(i - 1) : s[j] # x
      ELSE 0

\* float(str): whitespace stripped, an optional sign, digits with at most
\* one "." among them and at least one digit.  The result is in units of
\* 10^-MaxDecimals.
PyFloatOfStr(s) ==
    LET t == PyStrip(s)
        neg == t # <<>> /\ t[1] = "-"
        body == IF t # <<>> /\ IsSign(t[1]) THEN Tail(t) ELSE t
        dot == IndexOf(body, ".")
        ip == IF dot = 0 THEN body ELSE SubSeq(body, 1, dot - 1)
        fp == IF dot = 0 THEN <<>> ELSE SubSeq(body, dot + 1, Len(body))
        fpk == SubSeq(fp, 1, Min(Len(fp), MaxDecimals))
        mag == IntOfDigits(ip).v * Scale
                 + IntOfDigits(fpk).v * Pow10(MaxDecimals - Len(fpk))
    IN IF ~AllDigits(ip) \/ ~AllDigits(fp) \/ (ip = <<>> /\ fp = <<>>)
         THEN [ok |-> FALSE, v |-> 0]
         ELSE [ok |-> TRUE, v |-> IF neg THEN -mag ELSE mag]

\* A value that is a number or a str (Union[int, str], Union[float, str]).
Num(v) == [t |-> "num", v |-> v, s |-> <<>>]
Str(s) == [t |-> "str", v |-> 0, s |-> s]

\* Every language treated as en.
NormalizeNumberStrAsEn(num, lang) == RemoveChar(_strip(num), ",")
_normalize_number_str(num, lang) ==
    LET s == _strip(num) IN
    IF lang = "ar"
      THEN RemoveChar(ReplaceChar(RemoveChar(_ar_digits_to_ascii(s), "ar,"),
                                  "ar.", "."), ",")
    ELSE IF lang = "de"
      THEN ReplaceChar(RemoveChar(s, "."), ",", ".")
    ELSE RemoveChar(s, ",")

\* etl._to_float; None is [some |-> FALSE].
_to_float(v, lang) ==
    IF v.t = "num" THEN [some |-> TRUE, v |-> v.v]
    ELSE LET f == PyFloatOfStr(_normalize_number_str(v.s, lang)) IN
         IF f.ok THEN [some |-> TRUE, v |-> f.v] ELSE [some |-> FALSE, v |-> 0]

(***************************************************************************)
(* DATES: etl.py _parse_date_localized                                     *)
(*                                                                         *)
(* A strptime format is [f, sep]: the order of its three fields and the    *)
(* literal between them, "%Y-%m-%d" being [<<"Y","m","d">>, "-"].          *)
(***************************************************************************)

FmtISO    == [f |-> <<"Y", "m", "d">>, sep |-> "-"]
FmtMDYs   == [f |-> <<"m", "d", "Y">>, sep |-> "/"]
FmtMDYd   == [f |-> <<"m", "d", "Y">>, sep |-> "-"]
FmtDMYs   == [f |-> <<"d", "m", "Y">>, sep |-> "/"]
FmtDMYd   == [f |-> <<"d", "m", "Y">>, sep |-> "-"]
FmtDMYdot == [f |-> <<"d", "m", "Y">>, sep |-> "."]

\* The en list given to every language.
DatePatternsAsEn(lang) == <<FmtISO, FmtMDYs, FmtMDYd, FmtDMYs, FmtDMYd>>
\* patterns = {"en": [...], "de": [...], "ar": [...]}; patterns.get(lang, en)
DatePatterns(lang) ==
    IF lang = "de" THEN <<FmtDMYdot, FmtDMYs, FmtDMYd, FmtISO>>
    ELSE IF lang = "ar" THEN <<FmtDMYs, FmtISO, FmtDMYd>>
    ELSE <<FmtISO, FmtMDYs, FmtMDYd, FmtDMYs, FmtDMYd>>

\* The fallbacks without the dotted German format.
DateFallbacksNoDotted == <<FmtISO, FmtDMYs, FmtMDYs, FmtDMYd, FmtMDYd>>
\* the extra-tolerant fallbacks
DateFallbacks == <<FmtISO, FmtDMYs, FmtMDYs, FmtDMYd, FmtMDYd, FmtDMYdot>>

IsDateDigit(c) == IsAsciiDigit(c) \/ IsArabicDigit(c)

\* The regular expression strptime builds for one directive, matched against
\* the whole field:  %Y \d\d\d\d;  %m 1[0-2]|0[1-9]|[1-9];
\* %d 3[0-1]|[1-2]\d|0[1-9]|[1-9]| [1-9].
FieldMatches(kind, tok) ==
    LET n == Len(tok)
        v(i) == DigitValue(tok[i])
    IN CASE kind = "Y" -> n = 4 /\ \A i \in 1..4 : IsDateDigit(tok[i])
         [] kind = "m" ->
              \/ n = 1 /\ IsDateDigit(tok[1]) /\ v(1) >= 1
              \/ n = 2 /\ IsDateDigit(tok[1]) /\ IsDateDigit(tok[2])
                       /\ \/ v(1) = 0 /\ v(2) >= 1
                          \/ v(1) = 1 /\ v(2) <= 2
         [] OTHER ->
              \/ n = 1 /\ IsDateDigit(tok[1]) /\ v(1) >= 1
              \/ n = 2 /\ IsDateDigit(tok[2])
                       /\ \/ tok[1] = " " /\ v(2) >= 1
                          \/ IsDateDigit(tok[1])
                             /\ \/ v(1) = 0 /\ v(2) >= 1
                                \/ v(1) \in {1, 2}
                                \/ v(1) = 3 /\ v(2) <= 1

FieldValue(tok) == IntOfDigits(LStrip(tok)).v

IsLeap(y) == y % 4 = 0 /\ (y % 100 # 0 \/ y % 400 = 0)
DaysInMonth(y, m) ==
    IF m = 2 THEN (IF IsLeap(y) THEN 29 ELSE 28)
    ELSE IF m \in {4, 6, 9, 11} THEN 30 ELSE 31

NoDate == [ok |-> FALSE, y |-> 0, m |-> 0, d |-> 0]

\* datetime.strptime(raw, fmt): the whole string must match, and the fields
\* must name a day that exists (year 1 at least).  ok = FALSE is ValueError.
Strptime(raw, fmt) ==
    LET i1 == IndexOf(raw, fmt.sep)
        t1 == SubSeq(raw, 1, i1 - 1)
        r1 == SubSeq(raw, i1 + 1, Len(raw))
        i2 == IndexOf(r1, fmt.sep)
        t2 == SubSeq(r1, 1, i2 - 1)
        t3 == SubSeq(r1, i2 + 1, Len(r1))
        toks == <<t1, t2, t3>>
        at(kind) == toks[CHOOSE k \in 1..3 : fmt.f[k] = kind]
        y == FieldValue(at("Y"))
        m == FieldValue(at("m"))
        d == FieldValue(at("d"))
    IN IF i1 = 0 \/ i2 = 0 THEN NoDate
       ELSE IF \E k \in 1..3 : ~FieldMatches(fmt.f[k], toks[k]) THEN NoDate
       ELSE IF y < 1 \/ d > DaysInMonth(y, m) THEN NoDate
       ELSE [ok |-> TRUE, y |-> y, m |-> m, d |-> d]

RECURSIVE IntToDigits(_)
IntToDigits(n) ==
    IF n < 10 THEN <<AsciiDigits[n + 1]>>
    ELSE IntToDigits(n \div 10) \o <<AsciiDigits[(n % 10) + 1]>>
Pad2(n) == IF n < 10 THEN <<"0">> \o IntToDigits(n) ELSE IntToDigits(n)

\* .strftime("%Y-%m-%d") as glibc computes it: %m and %d are padded to two
\* digits, %Y is the year's digits without padding.
Strftime(dt) == IntToDigits(dt.y) \o <<"-">> \o Pad2(dt.m) \o <<"-">> \o Pad2(dt.d)

None == [some |-> FALSE, v |-> <<>>]
Some(v) == [some |-> TRUE, v |-> v]

\* The first format of the list that parses decides; None when none does.
RECURSIVE FirstParse(_, _)
FirstParse(raw, fmts) ==
    IF fmts = <<>> THEN None
    ELSE LET dt == Strptime(raw, Head(fmts)) IN
         IF dt.ok THEN Some(Strftime(dt)) ELSE FirstParse(raw, Tail(fmts))

_parse_date_localized(date_str, lang) ==
    LET raw0 == _strip(date_str)
        raw1 == IF \E i \in 1..Len(raw0) : raw0[i] \in ARABIC_INDIC_CHARS
                  THEN _ar_digits_to_ascii(raw0) ELSE raw0
        raw == RemoveChar(ReplaceChar(raw1, "ar.", "."), "ar,")
        first == FirstParse(raw, DatePatterns(lang))
    IN IF raw0 = <<>> THEN None
       ELSE IF first.some THEN first
       ELSE FirstParse(raw, DateFallbacks)

(***************************************************************************)
(* SCHEMA: schema.py InvoiceItem, InvoiceInput                             *)
(*                                                                         *)
(* A raw submission is what the client sent and pydantic accepts; the      *)
(* payload is inv.model_dump(), after the field validators.                *)
(***************************************************************************)

\* InvoiceItem._quantity_ok
_quantity_ok(v) ==
    IF v.t = "str" THEN Str(PyStrip(v.s)) ELSE Num(Max(1, v.v))

\* InvoiceItem._unit_price_ok
_unit_price_ok(v) ==
    IF v.t = "str" THEN Str(PyStrip(v.s)) ELSE Num(Max(0, v.v))

ValidateItem(it) ==
    [description |-> it.description,
     quantity |-> _quantity_ok(it.quantity),
     unit_price |-> _unit_price_ok(it.unit_price),
     category |-> it.category]

EUR == <<"E", "U", "R">>

\* InvoiceInput._cur_upper: (v or "EUR").upper()
_cur_upper(v) == PyUpper(IF v = <<>> THEN EUR ELSE v)

\* currency: str = "EUR": the default stands in for an absent field, and the
\* validator runs on a value that was sent.
ValidateInput(raw) ==
    [vendor_name |-> raw.vendor_name,
     invoice_number |-> raw.invoice_number,
     date |-> raw.date,
     tax_id |-> raw.tax_id,
     items |-> [i \in 1..Len(raw.items) |-> ValidateItem(raw.items[i])],
     currency |-> IF raw.currency.some THEN _cur_upper(raw.currency.v) ELSE EUR,
     raw_text |-> raw.raw_text]

(***************************************************************************)
(* ETL: etl.py normalize                                                   *)
(***************************************************************************)

NoneNum == [some |-> FALSE, v |-> 0]
SomeNum(v) == [some |-> TRUE, v |-> v]

\* qty = it.get("quantity", 1); Arabic-Indic digits to ASCII under "ar";
\* int(qty), and 1 on any exception.
ItemQuantity(q, lang) ==
    IF q.t = "num" THEN [big |-> FALSE, v |-> q.v]
    ELSE LET s == IF lang = "ar" THEN _ar_digits_to_ascii(q.s) ELSE q.s
             p == PyIntOfStr(s)
         IN IF p.ok THEN [big |-> p.big, v |-> p.v] ELSE [big |-> FALSE, v |-> 1]

\* unit_price = _to_float(it.get("unit_price", 0.0), lang) or 0.0
ItemUnitPrice(u, lang) ==
    LET f == _to_float(u, lang) IN IF f.some THEN f.v ELSE 0

\* One pass of the loop over raw_items.  qty * unit_price converts the int
\* to a float, and raises OverflowError when it is beyond a float's range.
RECURSIVE NormalizeItems(_, _, _)
NormalizeItems(raw_items, lang, acc) ==
    IF raw_items = <<>> \/ acc.raised THEN acc
    ELSE LET it == Head(raw_items)
             qty == ItemQuantity(it.quantity, lang)
             unit_price == ItemUnitPrice(it.unit_price, lang)
             item == [description |-> _strip(it.description),
                      quantity |-> qty.v,
                      unit_price |-> unit_price,
                      category |-> _strip(it.category)]
         IN NormalizeItems(Tail(raw_items), lang,
              [raised |-> qty.big,
               items |-> Append(acc.items, item),
               total |-> IF qty.big THEN acc.total
                         ELSE acc.total + qty.v * unit_price])

\* round(x, 2), x in units of 10^-MaxDecimals (ties to even)
Round2(x) ==
    IF MaxDecimals <= 2 THEN x
    ELSE LET q == Pow10(MaxDecimals - 2)
             lo == (x \div q) * q
             rem == x - lo
         IN IF 2 * rem < q THEN lo
            ELSE IF 2 * rem > q THEN lo + q
            ELSE IF (lo \div q) % 2 = 0 THEN lo ELSE lo + q

\* "total_amount": round(total_amount, 2) if line_count else None
TotalAmountIfNonzero(total_amount, line_count) ==
    IF total_amount # 0 THEN SomeNum(Round2(total_amount)) ELSE NoneNum
TotalAmountField(total_amount, line_count) ==
    IF line_count # 0 THEN SomeNum(Round2(total_amount)) ELSE NoneNum

\* currency = _strip(payload.get("currency") or "EUR").upper()
NormCurrency(cur) == PyUpper(_strip(IF cur = <<>> THEN EUR ELSE cur))

NonEmpty(parts) == SelectSeq(parts, LAMBDA p : p # <<>>)

NoNorm ==
    [vendor_name |-> <<>>, invoice_number |-> <<>>, date |-> None,
     tax_id |-> <<>>, items |-> <<>>, currency |-> <<>>,
     total_amount |-> NoneNum, line_count |-> 0, full_text |-> <<>>]

\* The body of normalize around its loop: the header fields before it, and
\* line_count, full_text and the returned dict after it.  loop is what the
\* loop over raw_items left: [raised, items, total].
NormalizeAround(payload, lang, loop) ==
    LET vendor_name == _strip(payload.vendor_name)
        invoice_number == _strip(payload.invoice_number)
        date_iso == _parse_date_localized(_strip(payload.date), lang)
        tax_id == _strip(payload.tax_id)
        currency == NormCurrency(payload.currency)
        items == loop.items
        line_count == Len(items)
        descs == NonEmpty([i \in 1..Len(items) |-> items[i].description])
        parts0 == <<vendor_name, invoice_number, tax_id, currency>> \o descs
                    \o <<_strip(payload.raw_text)>>
        parts == IF lang = "ar"
                   THEN [i \in 1..Len(parts0) |-> _ar_digits_to_ascii(parts0[i])]
                 ELSE parts0
    IN IF loop.raised THEN [raised |-> TRUE, norm |-> NoNorm]
       ELSE [raised |-> FALSE,
             norm |-> [vendor_name |-> vendor_name,
                       invoice_number |-> invoice_number,
                       date |-> date_iso,
                       tax_id |-> tax_id,
                       items |-> items,
                       currency |-> currency,
                       total_amount |-> TotalAmountField(loop.total, line_count),
                       line_count |-> line_count,
                       full_text |-> JoinSpace(NonEmpty(parts))]]

\* normalize(payload, lang): [raised, norm]
normalize(payload, lang) ==
    CHOOSE r \in { NormalizeAround(payload, lang, loop) :
                     loop \in { NormalizeItems(payload.items, lang,
                                  [raised |-> FALSE, items |-> <<>>, total |-> 0]) } } :
        TRUE

\* ---- the submissions tried

MaxItems == 2
Langs == {"en", "de", "ar"}

RawItem(desc, q, u) ==
    [description |-> desc, quantity |-> q, unit_price |-> u, category |-> <<>>]

\* Quantities and unit prices as numbers and as strings: in range, zero,
\* negative, unparsable, empty, localized, Arabic-Indic, beyond a float.
ItemSamples ==
    { RawItem(<<"K", "e", "y">>, Num(3), Num(35 * Scale)),
      RawItem(<<"a">>, Num(0), Num(-Scale)),
      RawItem(<<"a">>, Str(<<"2">>), Str(<<"1", ",", "5">>)),
      RawItem(<<"a">>, Str(<<"0">>), Num(Scale)),
      RawItem(<<"a">>, Str(<<" ", "-", "1">>), Str(<<"-", "5">>)),
      RawItem(<<"a">>, Str(<<"x">>), Str(<<"x">>)),
      RawItem(<<"ar7">>, Str(<<"ar3">>), Str(<<"ar1", "ar.", "ar5">>)),
      RawItem(<<"a">>, Str(<<"1", ZeroRun>>), Num(0)),
      RawItem(<<>>, Str(<<>>), Str(<<>>)) }

ItemLists == UNION {[1..n -> ItemSamples] : n \in 0..MaxItems}

DateSamples ==
    { <<"2", "0", "2", "5", "-", "0", "7", "-", "1", "0">>,
      <<"1", "0", ".", "0", "7", ".", "2", "0", "2", "5">>,
      <<"1", "3", "/", "1", "3", "/", "2", "0", "2", "5">>,
      <<>> }

Absent == [some |-> FALSE, v |-> <<>>]
CurrencySamples ==
    { Absent, Some(<<>>), Some(<<" ">>), Some(<<"e", "u", "r">>),
      Some(<<" ", "U", "s", "d">>) }

EtlInputs ==
    [raw : [vendor_name : {<<"A", "d", " ">>},
            invoice_number : {<<"A", "-", "1">>},
            date : DateSamples,
            tax_id : {<<"D", "E", "1">>},
            items : ItemLists,
            currency : CurrencySamples,
            raw_text : {<<>>}],
     lang : Langs]

NoEtlOut == [done |-> FALSE, raised |-> FALSE, norm |-> NoNorm]

EtlIdle ==
    /\ etl_in = [raw |-> [vendor_name |-> <<>>, invoice_number |-> <<>>,
                          date |-> <<>>, tax_id |-> <<>>, items |-> <<>>,
                          currency |-> Absent, raw_text |-> <<>>],
                 lang |-> "en"]
    /\ etl_out = NoEtlOut

\* The pipeline's first half on one submission: payload = inv.model_dump(),
\* then norm = normalize(payload, lang).
Normalize ==
    /\ ~etl_out.done
    /\ LET r == normalize(ValidateInput(etl_in.raw), etl_in.lang) IN
         etl_out' = [done |-> TRUE, raised |-> r.raised, norm |-> r.norm]
    /\ UNCHANGED etl_in

(***************************************************************************)
(* MODEL ARTIFACTS: classify.py _load_models / predict_type,               *)
(* explain.py _load_artifacts / explain_for_payload, anomaly.py _IFOREST   *)
(*                                                                         *)
(* /predict is a sync endpoint, so requests run on the server's thread     *)
(* pool and their calls interleave between statements.  A request calls    *)
(* predict_type and then explain_for_payload.  Whether joblib.load of a    *)
(* file succeeds is the environment's: a file can be missing or corrupt    *)
(* now and readable later, or the other way round.                         *)
(***************************************************************************)

MaxThreads == 2
MaxCalls == 1

Threads == 1..MaxThreads
VecFile == "vectorizer.joblib"
ClsFile == "type_classifier.joblib"
ForestFile == "anomaly_iforest.joblib"
LazyFiles == {VecFile, ClsFile}
Files == LazyFiles \cup {ForestFile}
Modules == {"classify", "explain"}
\* the module globals _VEC and _CLS of classify.py and of explain.py
Slots == Modules \X {"_VEC", "_CLS"}

NoLocals ==
    [failed |-> FALSE, loaded |-> FALSE, vec |-> "None", cls |-> "None",
     path |-> "none", expl |-> "none"]

\* After import: anomaly.py has loaded its model (_IFOREST = joblib.load(...)
\* at module level), the lazy caches are unset.
ModelsStart ==
    /\ cache = [s \in Slots |-> "None"]
    /\ loads = [f \in Files |-> IF f = ForestFile THEN 1 ELSE 0]
    /\ mpc = [t \in Threads |-> [fn |-> "none", at |-> "idle"]]
    /\ mloc = [t \in Threads |-> NoLocals]
    /\ mcalls = [t \in Threads |-> 0]

ModelsIdle == ModelsStart /\ avail = [f \in LazyFiles |-> TRUE]

Goto(t, fn, at) == mpc' = [mpc EXCEPT ![t] = [fn |-> fn, at |-> at]]
At(t, fn, at) == mpc[t] = [fn |-> fn, at |-> at]

\* The environment: an artifact file becomes readable or unreadable.
EnvSetAvail(f, b) ==
    /\ avail[f] # b
    /\ avail' = [avail EXCEPT ![f] = b]
    /\ UNCHANGED <<cache, loads, mpc, mloc, mcalls>>

\* A request reaches predict_type(norm.get("full_text", "")).
StartRequest(t) ==
    /\ At(t, "none", "idle")
    /\ mcalls[t] < MaxCalls
    /\ mcalls' = [mcalls EXCEPT ![t] = @ + 1]
    /\ mloc' = [mloc EXCEPT ![t] = NoLocals]
    /\ Goto(t, "classify", "check_vec")
    /\ UNCHANGED <<avail, cache, loads>>

\* if _VEC is None or _CLS is None:   (left operand)
CheckVec(t, m) ==
    /\ At(t, m, "check_vec")
    /\ Goto(t, m, IF cache[<<m, "_VEC">>] = "None" THEN "load_vec" ELSE "check_cls")
    /\ UNCHANGED <<avail, cache, loads, mloc, mcalls>>

\* if _VEC is None or _CLS is None:   (right operand)
CheckCls(t, m) ==
    /\ At(t, m, "check_cls")
    /\ Goto(t, m, IF cache[<<m, "_CLS">>] = "None" THEN "load_vec" ELSE "ret_vec")
    /\ UNCHANGED <<avail, cache, loads, mloc, mcalls>>

\* _VEC = joblib.load(VEC_PATH), inside try
LoadVec(t, m) ==
    /\ At(t, m, "load_vec")
    /\ IF avail[VecFile]
         THEN /\ cache' = [cache EXCEPT ![<<m, "_VEC">>] = "Loaded"]
              /\ loads' = [loads EXCEPT ![VecFile] = @ + 1]
              /\ Goto(t, m, "load_cls")
              /\ UNCHANGED mloc
         ELSE /\ mloc' = [mloc EXCEPT ![t].failed = TRUE]
              /\ Goto(t, m, "except_vec")
              /\ UNCHANGED <<cache, loads>>
    /\ UNCHANGED <<avail, mcalls>>

\* _CLS = joblib.load(CLS_PATH), inside try
LoadCls(t, m) ==
    /\ At(t, m, "load_cls")
    /\ IF avail[ClsFile]
         THEN /\ cache' = [cache EXCEPT ![<<m, "_CLS">>] = "Loaded"]
              /\ loads' = [loads EXCEPT ![ClsFile] = @ + 1]
              /\ mloc' = [mloc EXCEPT ![t].loaded = TRUE]
              /\ Goto(t, m, "ret_vec")
         ELSE /\ mloc' = [mloc EXCEPT ![t].failed = TRUE]
              /\ Goto(t, m, "except_vec")
              /\ UNCHANGED <<cache, loads>>
    /\ UNCHANGED <<avail, mcalls>>

\* except Exception: _VEC, _CLS = None, None      (first store)
ExceptVec(t, m) ==
    /\ At(t, m, "except_vec")
    /\ cache' = [cache EXCEPT ![<<m, "_VEC">>] = "None"]
    /\ Goto(t, m, "except_cls")
    /\ UNCHANGED <<avail, loads, mloc, mcalls>>

\* except Exception: _VEC, _CLS = None, None      (second store)
ExceptCls(t, m) ==
    /\ At(t, m, "except_cls")
    /\ cache' = [cache EXCEPT ![<<m, "_CLS">>] = "None"]
    /\ Goto(t, m, "ret_vec")
    /\ UNCHANGED <<avail, loads, mloc, mcalls>>

\* return _VEC, _CLS      (first read)
RetVec(t, m) ==
    /\ At(t, m, "ret_vec")
    /\ mloc' = [mloc EXCEPT ![t].vec = cache[<<m, "_VEC">>]]
    /\ Goto(t, m, "ret_cls")
    /\ UNCHANGED <<avail, cache, loads, mcalls>>

\* return _VEC, _CLS      (second read), then the caller's test
\* "if vec is not None and cls is not None": the model path, or the
\* keyword fallback (predict_type) / the frequency fallback (explain).
RetCls(t, m) ==
    /\ At(t, m, "ret_cls")
    /\ LET cls == cache[<<m, "_CLS">>]
           took == IF mloc[t].vec # "None" /\ cls # "None"
                     THEN "model" ELSE "fallback"
       IN IF m = "classify"
            THEN /\ mloc' = [mloc EXCEPT ![t].cls = cls, ![t].path = took]
                 /\ Goto(t, "classify", "returned")
            ELSE /\ mloc' = [mloc EXCEPT ![t].cls = cls, ![t].expl = took]
                 /\ Goto(t, "none", "idle")
    /\ UNCHANGED <<avail, cache, loads, mcalls>>

\* predict_type has returned; the request goes on (score_anomaly,
\* classify_vat) to explain_for_payload(norm).
CallExplain(t) ==
    /\ At(t, "classify", "returned")
    /\ Goto(t, "explain", "check_vec")
    /\ mloc' = [mloc EXCEPT ![t].failed = FALSE, ![t].loaded = FALSE]
    /\ UNCHANGED <<avail, cache, loads, mcalls>>

(***************************************************************************)
(* TAX: tax.py _decide_region_and_rate, classify_vat                       *)
(*                                                                         *)
(* Rates are in hundredths (19 is 0.19).  tax_id and currency are          *)
(* character sequences.  The scanned text is a sequence of lexemes: a      *)
(* lexeme is a run of word characters ("reverse", "196") or one non-word   *)
(* character (" ", "-", "%"); adjacent word lexemes form one word, so      *)
(* <<"reverse", "charge">> is the text "reversecharge".  The regular       *)
(* expressions are matched lexeme by lexeme with backtracking.             *)
(***************************************************************************)

EU_STANDARD(cc) ==
    CASE cc = <<"D", "E">> -> 19 [] cc = <<"F", "R">> -> 20
      [] cc = <<"I", "T">> -> 22 [] cc = <<"E", "S">> -> 21
      [] cc = <<"N", "L">> -> 21 [] cc = <<"B", "E">> -> 21
      [] cc = <<"A", "T">> -> 20 [] cc = <<"P", "T">> -> 23
      [] cc = <<"S", "E">> -> 25 [] cc = <<"D", "K">> -> 25
      [] cc = <<"F", "I">> -> 25 [] cc = <<"I", "E">> -> 23
      [] OTHER -> -1
InEU(cc) == EU_STANDARD(cc) >= 0

GCC_STANDARD(cc) ==
    CASE cc = <<"A", "E">> -> 5 [] cc = <<"S", "A">> -> 15
      [] cc = <<"B", "H">> -> 10 [] cc = <<"O", "M">> -> 5
      [] OTHER -> -1
InGCC(cc) == GCC_STANDARD(cc) >= 0

NoCountry == <<>>
CURRENCY_TO_GCC(cur) ==
    CASE cur = <<"A", "E", "D">> -> <<"A", "E">>
      [] cur = <<"S", "A", "R">> -> <<"S", "A">>
      [] cur = <<"B", "H", "D">> -> <<"B", "H">>
      [] cur = <<"O", "M", "R">> -> <<"O", "M">>
      [] OTHER -> NoCountry

\* tax_id[:2]
Prefix2(s) == SubSeq(s, 1, Min(2, Len(s)))

\* The currency hint consulted before the tax-id prefix.
DecideCurrencyBeforePrefix(norm) ==
    LET tax_id == PyUpper(norm.tax_id)
        cur == PyUpper(norm.currency)
        cc == Prefix2(tax_id)
        gcc_cc == CURRENCY_TO_GCC(cur)
    IN IF gcc_cc # NoCountry
         THEN [region |-> "GCC",
               rate |-> IF InGCC(gcc_cc) THEN GCC_STANDARD(gcc_cc) ELSE 15,
               cc |-> gcc_cc]
       ELSE IF InEU(cc) THEN [region |-> "EU", rate |-> EU_STANDARD(cc), cc |-> cc]
       ELSE IF InGCC(cc)
         THEN [region |-> "GCC", rate |-> GCC_STANDARD(cc), cc |-> cc]
       ELSE IF norm.language = "ar"
         THEN [region |-> "GCC", rate |-> 15, cc |-> <<"G", "C", "C">>]
       ELSE [region |-> "Unknown", rate |-> 15, cc |-> <<>>]

\* (region, rate, country_code_hint)
_decide_region_and_rate(norm) ==
    LET tax_id == PyUpper(norm.tax_id)
        cur == PyUpper(norm.currency)
        cc == Prefix2(tax_id)
        gcc_cc == CURRENCY_TO_GCC(cur)
    IN IF InEU(cc) THEN [region |-> "EU", rate |-> EU_STANDARD(cc), cc |-> cc]
       ELSE IF InGCC(cc)
         THEN [region |-> "GCC", rate |-> GCC_STANDARD(cc), cc |-> cc]
       ELSE IF gcc_cc # NoCountry
         THEN [region |-> "GCC",
               rate |-> IF InGCC(gcc_cc) THEN GCC_STANDARD(gcc_cc) ELSE 15,
               cc |-> gcc_cc]
       ELSE IF norm.language = "ar"
         THEN [region |-> "GCC", rate |-> 15, cc |-> <<"G", "C", "C">>]
       ELSE [region |-> "Unknown", rate |-> 15, cc |-> <<>>]

\* ---- regular expressions over lexemes

NonWordLexemes == {" ", "-", "%"}
IsWordLexeme(x) == x \notin NonWordLexemes

\* re.I: the letters of a lexeme, lower-cased
LowerLexeme(x) ==
    CASE x = "Reverse" -> "reverse" [] x = "VAT" -> "vat"
      [] x = "EXPORT" -> "export" [] OTHER -> x

\* \b at position i (between lexeme i-1 and lexeme i)
WordBoundary(text, i) ==
    LET before == i > 1 /\ IsWordLexeme(text[i - 1])
        after == i <= Len(text) /\ IsWordLexeme(text[i])
    IN before # after

PB == [k |-> "b", ws |-> {}]                  \* \b
PL(w) == [k |-> "lit", ws |-> {w}]            \* a literal word
PAlt(ws) == [k |-> "lit", ws |-> ws]          \* (w1|w2)
PStar(ws) == [k |-> "star", ws |-> ws]        \* \s*  or  [-\s]*
PAny == [k |-> "any", ws |-> {}]              \* .*
POpt(w) == [k |-> "opt", ws |-> {w}]          \* (w)?

\* Whether pat[j..] matches text from position i on.
RECURSIVE MatchFrom(_, _, _, _)
MatchFrom(text, i, pat, j) ==
    IF j > Len(pat) THEN TRUE
    ELSE LET e == pat[j]
             here == i <= Len(text)
         IN CASE e.k = "b" -> WordBoundary(text, i) /\ MatchFrom(text, i, pat, j + 1)
              [] e.k = "lit" ->
                   here /\ LowerLexeme(text[i]) \in e.ws
                        /\ MatchFrom(text, i + 1, pat, j + 1)
              [] e.k = "star" ->
                   \/ (here /\ text[i] \in e.ws /\ MatchFrom(text, i + 1, pat, j))
                   \/ MatchFrom(text, i, pat, j + 1)
              [] e.k = "any" ->
                   \/ (here /\ MatchFrom(text, i + 1, pat, j))
                   \/ MatchFrom(text, i, pat, j + 1)
              [] OTHER ->
                   \/ (here /\ LowerLexeme(text[i]) \in e.ws
                            /\ MatchFrom(text, i + 1, pat, j + 1))
                   \/ MatchFrom(text, i, pat, j + 1)

\* pat.search(text)
Search(pat, text) == \E i \in 1..(Len(text) + 1) : MatchFrom(text, i, pat, 1)

WS == {" "}
DashWS == {"-", " "}

\* \breverse\s*charge\b,  \barticle\s*196\b,  \bvat[-\s]*exempt\b
EXEMPT_PATTERNS ==
    << <<PB, PL("reverse"), PStar(WS), PL("charge"), PB>>,
       <<PB, PL("article"), PStar(WS), PL("196"), PB>>,
       <<PB, PL("vat"), PStar(DashWS), PL("exempt"), PB>> >>

\* \bzero[-\s]*rated\b,  \bvat\s*0%|\b0%\s*vat\b (its two alternatives),
\* \bexport\b.*\b(outside|to)\s*(eu|gcc)\b,
\* \binternational\s*transport(ation)?\b
ZERO_RATED_PATTERNS ==
    << <<PB, PL("zero"), PStar(DashWS), PL("rated"), PB>>,
       <<PB, PL("vat"), PStar(WS), PL("0"), PL("%")>>,
       <<PB, PL("0"), PL("%"), PStar(WS), PL("vat"), PB>>,
       <<PB, PL("export"), PB, PAny, PB, PAlt({"outside", "to"}), PStar(WS),
         PAlt({"eu", "gcc"}), PB>>,
       <<PB, PL("international"), PStar(WS), PL("transport"), POpt("ation"), PB>> >>

AnyMatch(pats, text) == \E k \in 1..Len(pats) : Search(pats[k], text)

\* The zero-rating scan tried before the exemption scan.
FirstOverrideZeroFirst(text) ==
    IF AnyMatch(ZERO_RATED_PATTERNS, text) THEN "zero-rated"
    ELSE IF AnyMatch(EXEMPT_PATTERNS, text) THEN "exempt"
    ELSE "none"
\* Steps 2 and 3 of classify_vat: the override the text forces, if any.
FirstOverride(text) ==
    IF AnyMatch(EXEMPT_PATTERNS, text) THEN "exempt"
    ELSE IF AnyMatch(ZERO_RATED_PATTERNS, text) THEN "zero-rated"
    ELSE "none"

\* text = f"{norm.get('raw_text') or ''} {norm.get('full_text') or ''}"
ScannedText(norm) == norm.raw_text \o <<" ">> \o norm.full_text

classify_vat(norm) ==
    LET d == _decide_region_and_rate(norm)
        over == FirstOverride(ScannedText(norm))
    IN IF over = "exempt"
         THEN [region |-> d.region, vat |-> "exempt", rate |-> 0,
               reason |-> "Detected exemption keyword"]
       ELSE IF over = "zero-rated"
         THEN [region |-> d.region, vat |-> "zero-rated", rate |-> 0,
               reason |-> "Detected zero-rated cue"]
       ELSE IF d.region = "EU" /\ InEU(d.cc)
         THEN [region |-> "EU", vat |-> "standard", rate |-> EU_STANDARD(d.cc),
               reason |-> "EU VAT ID prefix"]
       ELSE IF d.region = "GCC"
         THEN [region |-> "GCC", vat |-> "standard",
               rate |-> IF InGCC(d.cc) THEN GCC_STANDARD(d.cc) ELSE d.rate,
               reason |-> IF InGCC(d.cc) THEN "GCC VAT ID" ELSE "GCC inference"]
       ELSE [region |-> "Unknown", vat |-> "standard", rate |-> d.rate,
             reason |-> "Default standard rate"]

\* ---- the records tried

PhraseSamples ==
    { <<>>,
      <<"acme">>,
      <<"reverse", " ", "charge">>,
      <<"Reverse", "charge">>,
      <<"reverse", " ", "charge", "s">>,
      <<"article", " ", "196">>,
      <<"VAT", "-", " ", "exempt">>,
      <<"zero", "-", "rated">>,
      <<"vat", " ", "0", "%">>,
      <<"0", "%", "vat">>,
      <<"EXPORT">>,
      <<"to", " ", "eu">>,
      <<"export", " ", "acme", " ", "outside", "gcc">>,
      <<"international", " ", "transport", "ation">> }

TaxIdSamples == { <<"D", "E", "1", "2", "3">>, <<"d", "e">>, <<"A", "E", "9">>,
                  <<"X", "1">>, <<>> }
TaxCurrencySamples == { EUR, <<"A", "E", "D">>, <<"s", "a", "r">> }

TaxInputs ==
    [tax_id : TaxIdSamples, currency : TaxCurrencySamples, language : Langs,
     raw_text : PhraseSamples, full_text : PhraseSamples]

NoTaxOut == [done |-> FALSE, region |-> "", vat |-> "", rate |-> 0, reason |-> ""]

TaxIdle ==
    /\ tax_in = [tax_id |-> <<>>, currency |-> <<>>, language |-> "en",
                 raw_text |-> <<>>, full_text |-> <<>>]
    /\ tax_out = NoTaxOut

ClassifyVat ==
    /\ ~tax_out.done
    /\ LET r == classify_vat(tax_in) IN
         tax_out' = [done |-> TRUE, region |-> r.region, vat |-> r.vat,
                     rate |-> r.rate, reason |-> r.reason]
    /\ UNCHANGED tax_in

(***************************************************************************)
(* ONE CALL OF A FUNCTION                                                  *)
(*                                                                         *)
(* call_in holds the arguments of the call under study and call_out its    *)
(* result; each specification below draws call_in from its own inputs.     *)
(***************************************************************************)

NoCallOut == [done |-> FALSE]

CallIdle ==
    /\ call_in = [fn |-> "none"]
    /\ call_out = NoCallOut

(***************************************************************************)
(* EXPLAIN: explain.py _top_token_contributions, explain_for_payload       *)
(*                                                                         *)
(* The vectorizer and the classifier are black boxes: what they yield for  *)
(* a text is the list of (feature, contribution) pairs of the text's       *)
(* non-zero TF-IDF columns, contribution = coef * tfidf, an input here (a  *)
(* feature is named by its index).  A weight is the fraction n / d.        *)
(***************************************************************************)

\* At most MaxFeatures non-zero columns, contributions from ContribValues.
MaxFeatures == 6
ContribValues == {-2, 0, 1}

TopK == 5             \* _top_token_contributions(text, top_k=5)
MostCommon == 3       \* Counter(tokens).most_common(3)
MinTokenLen == 2      \* if len(t) > 2
FreqDivisor == 10     \* float(i)/10.0

Abs(x) == IF x < 0 THEN -x ELSE x

\* list.sort(key=..., reverse=True) on pairs [token, w], key |w|: stable,
\* so pairs with equal keys keep their order.
RECURSIVE InsertDesc(_, _)
InsertDesc(x, s) ==
    IF s = <<>> THEN <<x>>
    ELSE IF Abs(Head(s).w) >= Abs(x.w) THEN <<Head(s)>> \o InsertDesc(x, Tail(s))
    ELSE <<x>> \o s
RECURSIVE SortDesc(_, _)
SortDesc(s, acc) ==
    IF s = <<>> THEN acc ELSE SortDesc(Tail(s), InsertDesc(Head(s), acc))

\* s[:k]
Take(s, k) == SubSeq(s, 1, Min(k, Len(s)))

\* max(abs(w) for _, w in top)
RECURSIVE MaxAbs(_)
MaxAbs(s) == IF s = <<>> THEN 0 ELSE Max(Abs(Head(s).w), MaxAbs(Tail(s)))

\* max_abs = max(...) or 1.0; top = [(tok, float(w / max_abs)) ...]
NormalizeTop(top) ==
    LET m == MaxAbs(top)
        max_abs == IF m = 0 THEN 1 ELSE m
    IN [i \in 1..Len(top) |-> [token |-> top[i].token, n |-> top[i].w, d |-> max_abs]]

\* [] without the artifacts; else the top_k contributions, rescaled.
_top_token_contributions(loaded, contribs) ==
    IF ~loaded THEN <<>>
    ELSE NormalizeTop(Take(SortDesc(contribs, <<>>), TopK))

\* str.lower() on the letters that occur in the inputs
LowerChar(c) ==
    IF \E i \in 1..Len(UpperLetters) : UpperLetters[i] = c
      THEN LowerLetters[CHOOSE i \in 1..Len(UpperLetters) : UpperLetters[i] = c]
      ELSE c
PyLower(s) == [i \in 1..Len(s) |-> LowerChar(s[i])]

\* str.split(): the runs of non-whitespace characters
RECURSIVE SplitWords(_, _, _)
SplitWords(s, cur, acc) ==
    LET flushed == IF cur = <<>> THEN acc ELSE Append(acc, cur)
    IN IF s = <<>> THEN flushed
       ELSE IF IsSpace(Head(s)) THEN SplitWords(Tail(s), <<>>, flushed)
       ELSE SplitWords(Tail(s), Append(cur, Head(s)), acc)

\* Counter(tokens): the distinct tokens in order of first occurrence, each
\* with its count.
RECURSIVE CountTokens(_, _)
CountTokens(tokens, acc) ==
    IF tokens = <<>> THEN acc
    ELSE LET t == Head(tokens)
             seen == \E i \in 1..Len(acc) : acc[i].token = t
         IN CountTokens(Tail(tokens),
              IF seen
                THEN [i \in 1..Len(acc) |->
                        IF acc[i].token = t
                          THEN [token |-> t, w |-> acc[i].w + 1] ELSE acc[i]]
                ELSE Append(acc, [token |-> t, w |-> 1]))

\* The fallback of explain_for_payload: the 3 most frequent tokens longer
\* than 2 characters, weight count / 10.
FrequencyTokens(text) ==
    LET tokens == SelectSeq(SplitWords(text, <<>>, <<>>),
                            LAMBDA t : Len(t) > MinTokenLen)
        common == Take(SortDesc(CountTokens(tokens, <<>>), <<>>), MostCommon)
    IN [i \in 1..Len(common) |->
          [token |-> common[i].token, n |-> common[i].w, d |-> FreqDivisor]]

\* explain_for_payload(norm), norm["full_text"] = full_text
explain_for_payload(loaded, contribs, full_text) ==
    LET top == _top_token_contributions(loaded, contribs)
    IN IF top # <<>>
         THEN [method |-> "linear_contribution", top_tokens |-> top]
         ELSE [method |-> "feature_importances",
               top_tokens |-> FrequencyTokens(PyLower(full_text))]

ContribLists == UNION {[1..n -> ContribValues] : n \in 0..MaxFeatures}

\* The k-th contribution of a list is that of feature k.
Numbered(s) == [i \in 1..Len(s) |-> [token |-> i, w |-> s[i]]]

ExplainTexts ==
    { <<>>,
      <<"a", "b">>,
      <<"a", "c", "m", "e">>,
      <<"a", "c", "m", "e", " ", "k", "e", "y", " ", "A", "c", "m", "e">>,
      <<"k", "e", "y", " ", " ", "a", "b", " ", "u", "s", "d", " ", "k", "e", "y",
        " ", "e", "u", "r", " ", "a", "d", "s">> }

ExplainInputs ==
    [fn : {"explain_for_payload"}, loaded : BOOLEAN, contribs : ContribLists,
     full_text : ExplainTexts]

ExplainForPayload ==
    /\ call_in.fn = "explain_for_payload"
    /\ ~call_out.done
    /\ \E r \in {explain_for_payload(call_in.loaded, Numbered(call_in.contribs),
                                     call_in.full_text)} :
         call_out' = [done |-> TRUE, method |-> r.method, top_tokens |-> r.top_tokens]
    /\ UNCHANGED call_in

(***************************************************************************)
(* LANGUAGE: language.py _whitelist, detect_language                       *)
(*                                                                         *)
(* langdetect's detect(text) is a black box: it returns some language      *)
(* code or raises; its outcome for the detection text is an input.         *)
(***************************************************************************)

LangEn == <<"e", "n">>
SUPPORTED == {LangEn, <<"d", "e">>, <<"a", "r">>}

\* The fallback to "en" left out.
WhitelistLowerOnly(code) == PyLower(code)
\* code = (code or "").lower(); return code if code in SUPPORTED else "en"
_whitelist(code) ==
    LET lowered == PyLower(code)
    IN IF lowered \in SUPPORTED THEN lowered ELSE LangEn

\* text = payload.get("raw_text") or " ".join([vendor_name, invoice_number,
\* currency]).strip()        (an absent field reads as "")
DetectionText(payload) ==
    IF payload.raw_text.some /\ payload.raw_text.v # <<>>
      THEN payload.raw_text.v
      ELSE PyStrip(payload.vendor_name \o <<" ">> \o payload.invoice_number
                     \o <<" ">> \o payload.currency)

\* detected is what detect(text) does: [raises, code]
detect_language(payload, detected) ==
    IF payload.language.some /\ payload.language.v # <<>>
      THEN _whitelist(payload.language.v)
    ELSE IF DetectionText(payload) = <<>> THEN LangEn
    ELSE IF detected.raises THEN LangEn
    ELSE _whitelist(detected.code)

LanguageTags ==
    { Absent, Some(<<>>), Some(<<"d", "e">>), Some(<<"D", "E">>),
      Some(<<"A", "r">>), Some(<<"e", "n">>), Some(<<"f", "r">>),
      Some(<<" ", "d", "e">>) }

DetectOutcomes ==
    [raises : {TRUE}, code : {<<>>}] \cup
    [raises : {FALSE},
     code : {<<"e", "n">>, <<"d", "e">>, <<"a", "r">>, <<"f", "r">>,
             <<"z", "h", "-", "c", "n">>}]

LanguageInputs ==
    [fn : {"detect_language"},
     payload : [language : LanguageTags,
                raw_text : {Absent, Some(<<>>), Some(<<" ">>), Some(<<"a", "d">>)},
                vendor_name : {<<>>, <<"A", "d">>},
                invoice_number : {<<>>, <<"1">>},
                currency : {<<>>, EUR}],
     detected : DetectOutcomes]

DetectLanguage ==
    /\ call_in.fn = "detect_language"
    /\ ~call_out.done
    /\ call_out' = [done |-> TRUE,
                    lang |-> detect_language(call_in.payload, call_in.detected)]
    /\ UNCHANGED call_in

(***************************************************************************)
(* ONE DATE, ONE NUMBER: etl.py _parse_date_localized and _to_float called *)
(* on their own.                                                           *)
(***************************************************************************)

\* Strings of the shape YYYY-MM-DD, some of them naming no day.
IsoShaped ==
    { y \o <<"-">> \o m \o <<"-">> \o d :
        y \in {<<"0", "9", "9", "9">>, <<"2", "0", "2", "4">>, <<"2", "0", "2", "5">>},
        m \in {<<"0", "2">>, <<"0", "7">>, <<"1", "2">>},
        d \in {<<"0", "1">>, <<"2", "9">>, <<"3", "1">>} }

OtherDates ==
    { <<"0", "3", "/", "0", "4", "/", "2", "0", "2", "5">>,
      <<"1", "3", "/", "0", "4", "/", "2", "0", "2", "5">>,
      <<"0", "3", "/", "1", "4", "/", "2", "0", "2", "5">>,
      <<"0", "3", "-", "0", "4", "-", "2", "0", "2", "5">>,
      <<"1", "0", ".", "0", "7", ".", "2", "0", "2", "5">>,
      <<"3", "1", ".", "0", "2", ".", "2", "0", "2", "5">>,
      <<"3", "/", "4", "/", "2", "0", "2", "5">>,
      <<" ", "1", "0", ".", "0", "7", ".", "2", "0", "2", "5", " ">>,
      <<"ar1", "ar0", "/", "ar0", "ar7", "/", "ar2", "ar0", "ar2", "ar5">>,
      <<"2", "0", "2", "5", "/", "0", "7", "/", "1", "0">>,
      <<"1", "0", ".", "0", "7", ".", "2", "5">>,
      <<"J", "u", "l", "y">>,
      <<" ">>,
      <<>> }

DateInputs ==
    [fn : {"_parse_date_localized"}, date_str : IsoShaped \cup OtherDates,
     lang : Langs]

ParseDateLocalized ==
    /\ call_in.fn = "_parse_date_localized"
    /\ ~call_out.done
    /\ call_out' = [done |-> TRUE,
                    date |-> _parse_date_localized(call_in.date_str, call_in.lang)]
    /\ UNCHANGED call_in

\* Numeric strings in the three notations and their mixtures: a leading
\* digit, a separator, three digits, a separator, up to two digits.
NumberShaped ==
    { a \o s1 \o b \o s2 \o c :
        a \in {<<"1">>, <<"ar1">>, <<"-", "1">>},
        s1 \in {<<".">>, <<",">>, <<"ar,">>, <<>>},
        b \in {<<"2", "3", "4">>, <<"ar2", "ar3", "ar4">>},
        s2 \in {<<".">>, <<",">>, <<"ar.">>, <<>>},
        c \in {<<"5", "6">>, <<"ar5", "ar6">>, <<>>} }

OtherNumbers == {<<>>, <<" ">>, <<"x">>, <<" ", "7", " ">>, <<".", "5">>, <<"1", ".">>}

\* The digits after the point of the string float() is given.
FractionDigits(s) ==
    IF IndexOf(s, ".") = 0 THEN 0 ELSE Len(s) - IndexOf(s, ".")

\* The calls whose value the fixed-point float holds exactly.
FloatInputs ==
    { c \in [fn : {"_to_float"},
             v : {Str(s) : s \in NumberShaped \cup OtherNumbers}
                   \cup {Num(0), Num(-Scale), Num(3 * Scale), Num(123456 * (Scale \div 100))},
             lang : Langs] :
        c.v.t = "str" =>
          FractionDigits(_normalize_number_str(c.v.s, c.lang)) <= MaxDecimals }

ToFloat ==
    /\ call_in.fn = "_to_float"
    /\ ~call_out.done
    /\ call_out' = [done |-> TRUE, value |-> _to_float(call_in.v, call_in.lang)]
    /\ UNCHANGED call_in

(***************************************************************************)
(* PIPELINE: api.py predict, steps 1, 2 and 6: detect_language, normalize, *)
(* classify_vat on one submission.                                         *)
(*                                                                         *)
(* call_in is the submission and what langdetect makes of it; call_out.at  *)
(* is the statement predict has reached.  normalize returns no raw_text    *)
(* key, so classify_vat scans full_text alone.                             *)
(***************************************************************************)

\* The language code as the name the ETL and tax models use.
LangName(code) ==
    IF code = <<"d", "e">> THEN "de" ELSE IF code = <<"a", "r">> THEN "ar" ELSE "en"

\* A text as lexemes: each maximal run of word characters is one lexeme,
\* each other character a lexeme of its own.
RECURSIVE Lexemes(_, _, _)
Lexemes(s, cur, acc) ==
    LET flushed == IF cur = "" THEN acc ELSE Append(acc, cur) IN
    IF s = <<>> THEN flushed
    ELSE IF Head(s) \in NonWordLexemes
      THEN Lexemes(Tail(s), "", Append(flushed, Head(s)))
    ELSE Lexemes(Tail(s), cur \o Head(s), acc)

\* The payload as detect_language reads it.
LanguagePayload(payload, language) ==
    [language |-> language,
     raw_text |-> Some(payload.raw_text),
     vendor_name |-> payload.vendor_name,
     invoice_number |-> payload.invoice_number,
     currency |-> payload.currency]

\* {**norm, "language": lang} as classify_vat reads it.
TaxRecord(norm, lang) ==
    [tax_id |-> norm.tax_id, currency |-> norm.currency, language |-> lang,
     raw_text |-> <<>>, full_text |-> Lexemes(norm.full_text, "", <<>>)]

Keyboard == <<"K", "e", "y", "b", "o", "a", "r", "d">>

PipelineInputs ==
    [fn : {"predict"},
     raw : [vendor_name : {<<"A", "c", "m", "e">>},
            invoice_number : {<<"A", "-", "1">>},
            date : {<<"1", "0", ".", "0", "7", ".", "2", "0", "2", "5">>,
                    <<"0", "3", "/", "0", "4", "/", "2", "0", "2", "5">>},
            tax_id : {<<"D", "E", "1", "2", "3">>, <<"A", "E", "1">>, <<"X", "1">>},
            items : {<<RawItem(Keyboard, Num(3), Num(35 * Scale))>>,
                     <<RawItem(Keyboard, Str(<<"3">>), Str(<<"3", "5", ",", "0">>))>>},
            currency : {Some(EUR), Absent, Some(<<"A", "E", "D">>)},
            raw_text : {<<>>}],
     language : {Absent, Some(<<"D", "E">>)},
     detected : DetectOutcomes]

\* lang = detect_language(payload)
PipelineDetect ==
    /\ call_in.fn = "predict"
    /\ ~call_out.done /\ "at" \notin DOMAIN call_out
    /\ LET payload == ValidateInput(call_in.raw) IN
         call_out' = [done |-> FALSE, at |-> "lang",
                      lang |-> LangName(detect_language(
                                 LanguagePayload(payload, call_in.language),
                                 call_in.detected))]
    /\ UNCHANGED call_in

\* norm = normalize(payload, lang); an exception ends the request
PipelineNormalize ==
    /\ call_in.fn = "predict"
    /\ ~call_out.done /\ "at" \in DOMAIN call_out /\ call_out.at = "lang"
    /\ \E r \in {normalize(ValidateInput(call_in.raw), call_out.lang)} :
         call_out' = IF r.raised
                       THEN [done |-> TRUE, at |-> "raised", lang |-> call_out.lang]
                       ELSE [done |-> FALSE, at |-> "norm", lang |-> call_out.lang,
                             norm |-> r.norm]
    /\ UNCHANGED call_in

\* tax = classify_vat({**norm, "language": lang})
PipelineClassifyVat ==
    /\ call_in.fn = "predict"
    /\ ~call_out.done /\ "at" \in DOMAIN call_out /\ call_out.at = "norm"
    /\ \E r \in {classify_vat(TaxRecord(call_out.norm, call_out.lang))} :
         call_out' = [done |-> TRUE, at |-> "tax", lang |-> call_out.lang,
                      norm |-> call_out.norm, tax |-> r]
    /\ UNCHANGED call_in

(***************************************************************************)
(* PREDICT: api.py predict on top of storage.py                            *)
(*                                                                         *)
(* Each request of the storage model is one /predict call: after its       *)
(* insert_raw_or_get returned it runs the pipeline, builds the response    *)
(* body and hands it to upsert_processed.  The outlier model's decision    *)
(* score and the number of missing fields are the request's own.  Any step *)
(* of the pipeline may raise (normalize does on some payloads), which ends *)
(* the request with HTTP 400 before upsert_processed.                      *)
(***************************************************************************)

NoResponse == [some |-> FALSE]
NotStarted == [at |-> "none", raw |-> 0, missing |-> 0]

\* (decision score, missing fields) of the submissions tried: one whose
\* duplicate bump shows in full, one whose risk is clipped at the cap.
PredictCases == {[raw |-> 40, missing |-> 0], [raw |-> -40, missing |-> 2]}

DuplicateWarning == "Duplicate (vendor_name, invoice_number) found; review before payment."

\* out = {...}; if is_duplicate: out["warnings"].append(...)
ResponseBody(iid, created, raw, missing) ==
    LET is_duplicate == ~created
        a == score_anomaly(raw, is_duplicate, missing)
    IN [some |-> TRUE, id |-> iid,
        fraud_score |-> a.score, fraud_reasons |-> a.reasons,
        warnings |-> IF is_duplicate THEN <<DuplicateWarning>> ELSE <<>>]

\* A result once stored is kept.
UpsertKeepFirst(proc, rws, iid, out) ==
    IF (\E x \in rws : x.id = iid) /\ proc[iid] = NoResponse
      THEN [proc EXCEPT ![iid] = out] ELSE proc
\* row = s.get(InvoiceRow, iid); if row: row.processed_json = json.dumps(...)
upsert_processed(proc, rws, iid, out) ==
    IF \E x \in rws : x.id = iid THEN [proc EXCEPT ![iid] = out] ELSE proc

PredictIdle ==
    /\ ppc = [r \in Requests |-> NotStarted]
    /\ pout = [r \in Requests |-> NoResponse]
    /\ processed = [i \in Requests |-> NoResponse]
    /\ plast = [k \in Keys |-> 0]

\* Steps 1 to 8 of predict after insert_raw_or_get returned (iid, created).
PredictBuild(r, raw, missing) ==
    /\ spc[r] = "done" /\ ~sret[r].raised
    /\ ppc[r].at = "none"
    /\ ppc' = [ppc EXCEPT ![r] = [at |-> "built", raw |-> raw, missing |-> missing]]
    /\ pout' = [pout EXCEPT ![r] =
                  ResponseBody(sret[r].id, sret[r].created, raw, missing)]
    /\ UNCHANGED <<processed, plast>>

\* except Exception as e: raise HTTPException(status_code=400, ...)
PredictRaise(r) ==
    /\ spc[r] = "done"
    /\ ppc[r].at = "none"
    /\ ppc' = [ppc EXCEPT ![r] = [at |-> "failed", raw |-> 0, missing |-> 0]]
    /\ UNCHANGED <<pout, processed, plast>>

\* storage.upsert_processed(iid, out); return out
PredictUpsert(r) ==
    /\ ppc[r].at = "built"
    /\ processed' = upsert_processed(processed, rows, pout[r].id, pout[r])
    /\ plast' = [plast EXCEPT ![skey[r]] = r]
    /\ ppc' = [ppc EXCEPT ![r].at = "returned"]
    /\ UNCHANGED pout

(***************************************************************************)
(* SPECIFICATIONS                                                          *)
(***************************************************************************)

InitStorage == StorageIdle /\ AnomalyIdle /\ EtlIdle /\ ModelsIdle /\ TaxIdle
    /\ CallIdle /\ PredictIdle
NextStorage ==
    \/ \E r \in Requests, k \in Keys :
         CallInsert(r, k) /\ UNCHANGED <<anomalyVars, etlVars, modelVars, taxVars, callVars, predictVars>>
    \/ \E r \in Requests :
         TryInsert(r) /\ UNCHANGED <<anomalyVars, etlVars, modelVars, taxVars, callVars, predictVars>>
    \/ \E r \in Requests :
         SelectExisting(r) /\ UNCHANGED <<anomalyVars, etlVars, modelVars, taxVars, callVars, predictVars>>
SpecStorage == InitStorage /\ [][NextStorage]_vars

InitAnomaly ==
    /\ StorageIdle /\ EtlIdle /\ ModelsIdle /\ TaxIdle /\ CallIdle /\ PredictIdle
    /\ an_in \in AnomalyInputs
    /\ an_out = NoAnomalyOut
NextAnomaly ==
    ScoreAnomaly /\ UNCHANGED <<storageVars, etlVars, modelVars, taxVars, callVars, predictVars>>
SpecAnomaly == InitAnomaly /\ [][NextAnomaly]_vars

InitEtl ==
    /\ StorageIdle /\ AnomalyIdle /\ ModelsIdle /\ TaxIdle /\ CallIdle /\ PredictIdle
    /\ etl_in \in EtlInputs
    /\ etl_out = NoEtlOut
NextEtl ==
    Normalize /\ UNCHANGED <<storageVars, anomalyVars, modelVars, taxVars, callVars, predictVars>>
SpecEtl == InitEtl /\ [][NextEtl]_vars

InitModels ==
    /\ StorageIdle /\ AnomalyIdle /\ EtlIdle /\ TaxIdle /\ CallIdle /\ PredictIdle
    /\ ModelsStart
    /\ avail \in [LazyFiles -> BOOLEAN]
NextModels ==
    \/ \E f \in LazyFiles, b \in BOOLEAN :
         EnvSetAvail(f, b) /\ UNCHANGED <<storageVars, anomalyVars, etlVars, taxVars, callVars, predictVars>>
    \/ \E t \in Threads :
         StartRequest(t) /\ UNCHANGED <<storageVars, anomalyVars, etlVars, taxVars, callVars, predictVars>>
    \/ \E t \in Threads, m \in Modules :
         CheckVec(t, m) /\ UNCHANGED <<storageVars, anomalyVars, etlVars, taxVars, callVars, predictVars>>
    \/ \E t \in Threads, m \in Modules :
         CheckCls(t, m) /\ UNCHANGED <<storageVars, anomalyVars, etlVars, taxVars, callVars, predictVars>>
    \/ \E t \in Threads, m \in Modules :
         LoadVec(t, m) /\ UNCHANGED <<storageVars, anomalyVars, etlVars, taxVars, callVars, predictVars>>
    \/ \E t \in Threads, m \in Modules :
         LoadCls(t, m) /\ UNCHANGED <<storageVars, anomalyVars, etlVars, taxVars, callVars, predictVars>>
    \/ \E t \in Threads, m \in Modules :
         ExceptVec(t, m) /\ UNCHANGED <<storageVars, anomalyVars, etlVars, taxVars, callVars, predictVars>>
    \/ \E t \in Threads, m \in Modules :
         ExceptCls(t, m) /\ UNCHANGED <<storageVars, anomalyVars, etlVars, taxVars, callVars, predictVars>>
    \/ \E t \in Threads, m \in Modules :
         RetVec(t, m) /\ UNCHANGED <<storageVars, anomalyVars, etlVars, taxVars, callVars, predictVars>>
    \/ \E t \in Threads, m \in Modules :
         RetCls(t, m) /\ UNCHANGED <<storageVars, anomalyVars, etlVars, taxVars, callVars, predictVars>>
    \/ \E t \in Threads :
         CallExplain(t) /\ UNCHANGED <<storageVars, anomalyVars, etlVars, taxVars, callVars, predictVars>>
SpecModels == InitModels /\ [][NextModels]_vars

InitTax ==
    /\ StorageIdle /\ AnomalyIdle /\ EtlIdle /\ ModelsIdle /\ CallIdle /\ PredictIdle
    /\ tax_in \in TaxInputs
    /\ tax_out = NoTaxOut
NextTax ==
    ClassifyVat /\ UNCHANGED <<storageVars, anomalyVars, etlVars, modelVars, callVars, predictVars>>
SpecTax == InitTax /\ [][NextTax]_vars

\* What a specification of one call leaves alone.
NotCallVars == <<storageVars, anomalyVars, etlVars, modelVars, taxVars, predictVars>>
NotCallIdle ==
    StorageIdle /\ AnomalyIdle /\ EtlIdle /\ ModelsIdle /\ TaxIdle /\ PredictIdle

InitExplain ==
    /\ NotCallIdle
    /\ call_in \in ExplainInputs
    /\ call_out = NoCallOut
NextExplain == ExplainForPayload /\ UNCHANGED NotCallVars
SpecExplain == InitExplain /\ [][NextExplain]_vars

InitLanguage ==
    /\ NotCallIdle
    /\ call_in \in LanguageInputs
    /\ call_out = NoCallOut
NextLanguage == DetectLanguage /\ UNCHANGED NotCallVars
SpecLanguage == InitLanguage /\ [][NextLanguage]_vars

InitDate ==
    /\ NotCallIdle
    /\ call_in \in DateInputs
    /\ call_out = NoCallOut
NextDate == ParseDateLocalized /\ UNCHANGED NotCallVars
SpecDate == InitDate /\ [][NextDate]_vars

InitFloat ==
    /\ NotCallIdle
    /\ call_in \in FloatInputs
    /\ call_out = NoCallOut
NextFloat == ToFloat /\ UNCHANGED NotCallVars
SpecFloat == InitFloat /\ [][NextFloat]_vars

InitPipeline ==
    /\ NotCallIdle
    /\ call_in \in PipelineInputs
    /\ call_out = NoCallOut
NextPipeline ==
    \/ PipelineDetect /\ UNCHANGED NotCallVars
    \/ PipelineNormalize /\ UNCHANGED NotCallVars
    \/ PipelineClassifyVat /\ UNCHANGED NotCallVars
SpecPipeline == InitPipeline /\ [][NextPipeline]_vars

NotPredictVars == <<anomalyVars, etlVars, modelVars, taxVars, callVars>>
InitPredict ==
    StorageIdle /\ AnomalyIdle /\ EtlIdle /\ ModelsIdle /\ TaxIdle /\ CallIdle
      /\ PredictIdle
NextPredict ==
    \/ \E r \in Requests, k \in Keys :
         CallInsert(r, k) /\ UNCHANGED <<NotPredictVars, predictVars>>
    \/ \E r \in Requests :
         TryInsert(r) /\ UNCHANGED <<NotPredictVars, predictVars>>
    \/ \E r \in Requests :
         SelectExisting(r) /\ UNCHANGED <<NotPredictVars, predictVars>>
    \/ \E r \in Requests, c \in PredictCases :
         PredictBuild(r, c.raw, c.missing) /\ UNCHANGED <<NotPredictVars, storageVars>>
    \/ \E r \in Requests :
         PredictRaise(r) /\ UNCHANGED <<NotPredictVars, storageVars>>
    \/ \E r \in Requests :
         PredictUpsert(r) /\ UNCHANGED <<NotPredictVars, storageVars>>
SpecPredict == InitPredict /\ [][NextPredict]_vars

(***************************************************************************)
(* PROPERTIES                                                              *)
(***************************************************************************)

\* ---- storage (SpecStorage)

C2_ScoreWithinCap ==
    an_out.done => an_out.score >= 0 /\ an_out.score <= RiskCap /\ an_out.score < 100

\* A duplicate with the most missing fields and the worst decision score:
\* the rule bumps carry the risk beyond 1.0 and the final clip brings it
\* back to 0.99.
C2_ClippedFromAbove ==
    /\ an_out.done
    /\ an_in.is_duplicate /\ an_in.missing_count = MaxMissing
    /\ an_in.raw = -MaxRawScore
    /\ an_out.unclipped > 100
    /\ an_out.score = RiskCap

\* C3: the reasons list returned by score_anomaly is never empty, for every
\* decision score, every is_duplicate and every missing_count >= 0.
C3_ReasonsNeverEmpty ==
    an_out.done => an_out.reasons # <<>>

\* C17: the reasons of score_anomaly hold the duplicate warning exactly
\* once when is_duplicate and not at all otherwise, and the missing-field
\* count reason exactly once when missing_count > 0 and not at all
\* otherwise; when both are there the duplicate warning comes first; a
\* duplicate with nothing missing has exactly one duplicate warning.
C17_ReasonsOncePerRule ==
    an_out.done =>
      LET rs == an_out.reasons
          dup == {i \in 1..Len(rs) : rs[i].kind = "duplicate"}
          mis == {i \in 1..Len(rs) : rs[i].kind = "missing"}
      IN /\ Cardinality(dup) = IF an_in.is_duplicate THEN 1 ELSE 0
         /\ Cardinality(mis) = IF an_in.missing_count > 0 THEN 1 ELSE 0
         /\ \A i \in mis : rs[i].n = an_in.missing_count
         /\ \A i \in dup, j \in mis : i < j
         /\ an_in.is_duplicate /\ an_in.missing_count = 0 => rs = <<ReasonDuplicate>>

\* A duplicate with nothing missing.
C17_DuplicateAlone ==
    /\ an_out.done
    /\ an_in.is_duplicate /\ an_in.missing_count = 0
    /\ an_out.reasons = <<ReasonDuplicate>>

\* ---- etl (SpecEtl)

\* C4: in every record normalize returns, line_count is the number of
\* items, and total_amount is present if and only if line_count > 0.
C4_LineCountAndTotal ==
    etl_out.done /\ ~etl_out.raised =>
      /\ etl_out.norm.line_count = Len(etl_out.norm.items)
      /\ etl_out.norm.line_count = Len(etl_in.raw.items)
      /\ etl_out.norm.total_amount.some <=> etl_out.norm.line_count > 0

\* A record with items whose line totals sum to 0.0: total_amount is
\* present and is zero.
C4_ZeroTotalPresent ==
    /\ etl_out.done /\ ~etl_out.raised
    /\ etl_out.norm.line_count > 0
    /\ etl_out.norm.total_amount = SomeNum(0)

\* C5: in every record normalize returns, currency is non-empty and
\* uppercase, for every raw currency the schema accepts (absent, empty and
\* whitespace-only included).
C5_CurrencyPresentUpper ==
    etl_out.done /\ ~etl_out.raised =>
      /\ etl_out.norm.currency # <<>>
      /\ etl_out.norm.currency = PyUpper(etl_out.norm.currency)

\* C6: every item of a record the pipeline produces has quantity >= 1 and
\* unit_price >= 0, whether they arrived as numbers or as strings.
C6_ItemsInRange ==
    etl_out.done /\ ~etl_out.raised =>
      \A i \in 1..Len(etl_out.norm.items) :
        /\ etl_out.norm.items[i].quantity >= 1
        /\ etl_out.norm.items[i].unit_price >= 0

\* C7: normalize returns a record, without raising, for every payload the
\* schema accepts and every language in {en, de, ar}.
C7_NormalizeNeverRaises ==
    etl_out.done => ~etl_out.raised

\* ---- model artifacts (SpecModels)

\* C8: each artifact file is loaded at most once per process, for any
\* interleaving of predict_type and explain_for_payload calls.
C8_LoadedAtMostOnce ==
    \A f \in Files : loads[f] <= 1

\* C9: a predict_type call whose load failed returns the keyword fallback,
\* and a call in which both artifacts loaded takes the model path.
C9_FailedFallsBackLoadedUsesModel ==
    \A t \in Threads :
      At(t, "classify", "returned") =>
        /\ mloc[t].failed => mloc[t].path = "fallback"
        /\ mloc[t].loaded => mloc[t].path = "model"

\* ---- tax (SpecTax)

\* C10: when the text classify_vat scans contains an exemption cue, the
\* result is "exempt" with rate 0.0, for every tax id, currency and
\* language, also when the same text holds a zero-rating cue.
C10_ExemptCueWins ==
    tax_out.done /\ AnyMatch(EXEMPT_PATTERNS, ScannedText(tax_in)) =>
      tax_out.vat = "exempt" /\ tax_out.rate = 0

\* A German tax id (standard rate 0.19) on a text holding both an
\* exemption cue and a zero-rating cue.
C10_BothCuesExempt ==
    /\ tax_out.done
    /\ AnyMatch(EXEMPT_PATTERNS, ScannedText(tax_in))
    /\ AnyMatch(ZERO_RATED_PATTERNS, ScannedText(tax_in))
    /\ InEU(Prefix2(PyUpper(tax_in.tax_id)))
    /\ tax_out.vat = "exempt"

\* C11: with no override cue in the text, classify_vat gives the standard
\* rate of the first rule that matches, in this order: EU table on the
\* uppercased first two characters of the tax id, GCC table on that
\* prefix, currency-to-GCC hint, language ar (GCC, 0.15), Unknown at 0.15.
\* So a tax id starting DE gives EU / 0.19 also with currency AED, and
\* currency AED with no recognized prefix gives GCC / 0.05.
C11_FirstRuleDecides ==
    tax_out.done /\ FirstOverride(ScannedText(tax_in)) = "none" =>
      LET cc == Prefix2(PyUpper(tax_in.tax_id))
          hint == CURRENCY_TO_GCC(PyUpper(tax_in.currency))
          prefixed == InEU(cc) \/ InGCC(cc)
          got == <<tax_out.region, tax_out.rate>>
      IN /\ tax_out.vat = "standard"
         /\ InEU(cc) => got = <<"EU", EU_STANDARD(cc)>>
         /\ ~InEU(cc) /\ InGCC(cc) => got = <<"GCC", GCC_STANDARD(cc)>>
         /\ ~prefixed /\ hint # NoCountry => got = <<"GCC", GCC_STANDARD(hint)>>
         /\ ~prefixed /\ hint = NoCountry /\ tax_in.language = "ar" =>
              got = <<"GCC", 15>>
         /\ ~prefixed /\ hint = NoCountry /\ tax_in.language # "ar" =>
              got = <<"Unknown", 15>>
         /\ cc = <<"D", "E">> => got = <<"EU", 19>>
         /\ ~prefixed /\ PyUpper(tax_in.currency) = <<"A", "E", "D">> =>
              got = <<"GCC", 5>>

\* A German tax id with currency AED and no cue in the text: the prefix
\* rule decides, not the currency hint.
C11_PrefixBeatsCurrency ==
    /\ tax_out.done
    /\ FirstOverride(ScannedText(tax_in)) = "none"
    /\ tax_in.tax_id = <<"D", "E", "1", "2", "3">>
    /\ tax_in.currency = <<"A", "E", "D">>
    /\ tax_out.region = "EU" /\ tax_out.rate = 19 /\ tax_out.vat = "standard"

\* C12: when no override fires, the reason names the rule that decided the
\* rate: EU VAT-id prefix, GCC VAT-id prefix, GCC inference (currency hint
\* or language), or the generic default; a GCC result reached through the
\* currency hint is not reported as a GCC VAT-id match.
C12_ReasonNamesDecidingRule ==
    tax_out.done /\ FirstOverride(ScannedText(tax_in)) = "none" =>
      LET cc == Prefix2(PyUpper(tax_in.tax_id))
          hint == CURRENCY_TO_GCC(PyUpper(tax_in.currency))
      IN tax_out.reason =
           IF InEU(cc) THEN "EU VAT ID prefix"
           ELSE IF InGCC(cc) THEN "GCC VAT ID"
           ELSE IF hint # NoCountry \/ tax_in.language = "ar" THEN "GCC inference"
           ELSE "Default standard rate"

\* ---- explain (SpecExplain)

\* C13: explain_for_payload returns at most 5 tokens, and whenever the
\* list is non-empty the largest absolute weight among them is 1.0, on the
\* model path and on the frequency fallback.
C13_AtMostFiveMaxWeightOne ==
    call_out.done =>
      LET top == call_out.top_tokens
      IN /\ Len(top) <= 5
         /\ top # <<>> =>
              /\ \A i \in 1..Len(top) : Abs(top[i].n) <= top[i].d
              /\ \E i \in 1..Len(top) : Abs(top[i].n) = top[i].d

\* ---- language (SpecLanguage)

\* C14 (amended): detect_language always returns one of en, de, ar.  An
\* explicit non-empty language tag is compared without regard to case: the
\* lower-cased tag is returned when it is a supported code, en otherwise.
\* Without a tag, an empty detection text gives en, a detector exception
\* gives en, and the detector's code is whitelisted the same way.
C14_SupportedCaseInsensitive ==
    call_out.done /\ call_in.fn = "detect_language" =>
      LET p == call_in.payload
          tagged == p.language.some /\ p.language.v # <<>>
          lang == call_out.lang
          Listed(code) == IF PyLower(code) \in SUPPORTED THEN PyLower(code) ELSE LangEn
      IN /\ lang \in SUPPORTED
         /\ tagged => lang = Listed(p.language.v)
         /\ ~tagged /\ DetectionText(p) = <<>> => lang = LangEn
         /\ ~tagged /\ call_in.detected.raises => lang = LangEn
         /\ ~tagged /\ DetectionText(p) # <<>> /\ ~call_in.detected.raises =>
              lang = Listed(call_in.detected.code)

\* An explicit tag in upper case is answered with its lower-case code.
C14_UpperCaseTagAccepted ==
    /\ call_out.done /\ call_in.fn = "detect_language"
    /\ call_in.payload.language = Some(<<"D", "E">>)
    /\ call_out.lang = <<"d", "e">>

\* C14: detect_language always returns one of en, de, ar: an explicit tag
\* is returned when it is one of the three supported codes and becomes en
\* otherwise, an empty detection text gives en, an unsupported detector
\* result gives en, and a detector exception gives en.
C14_TagReturnedOrEn ==
    call_out.done /\ call_in.fn = "detect_language" =>
      LET p == call_in.payload
          tagged == p.language.some /\ p.language.v # <<>>
          lang == call_out.lang
      IN /\ lang \in SUPPORTED
         /\ tagged =>
              lang = IF p.language.v \in SUPPORTED THEN p.language.v ELSE LangEn
         /\ ~tagged /\ DetectionText(p) = <<>> => lang = LangEn
         /\ ~tagged /\ call_in.detected.raises => lang = LangEn
         /\ ~tagged /\ ~call_in.detected.raises
               /\ call_in.detected.code \notin SUPPORTED => lang = LangEn

\* ---- dates (SpecDate)

\* C15: for every language and every valid ISO date string YYYY-MM-DD,
\* _parse_date_localized returns that same string; and whatever the input,
\* the date it yields is a valid ISO YYYY-MM-DD string or absent.
C15_IsoRoundTripIsoOrAbsent ==
    call_out.done /\ call_in.fn = "_parse_date_localized" =>
      LET IsIso(s) ==
              /\ Len(s) = 10 /\ s[5] = "-" /\ s[8] = "-"
              /\ \A i \in {1, 2, 3, 4, 6, 7, 9, 10} : IsAsciiDigit(s[i])
              /\ LET y == IntOfDigits(SubSeq(s, 1, 4)).v
                     m == IntOfDigits(SubSeq(s, 6, 7)).v
                     d == IntOfDigits(SubSeq(s, 9, 10)).v
                 IN y >= 1 /\ m \in 1..12 /\ d \in 1..DaysInMonth(y, m)
      IN /\ IsIso(call_in.date_str) => call_out.date = Some(call_in.date_str)
         /\ call_out.date.some => IsIso(call_out.date.v)

\* ---- numbers (SpecFloat)

\* C16: _to_float parses a numeric string by language: under de
\* "1.234,56" is 1234.56 and under en "1,234.56" is 1234.56; under ar the
\* Arabic-Indic digits, thousands separator and decimal separator give
\* the float of the equivalent ASCII string; a numeric value is returned
\* as that float without string parsing.
C16_LocalizedNumbers ==
    call_out.done /\ call_in.fn = "_to_float" =>
      LET v == call_in.v
          lang == call_in.lang
          got == call_out.value
          onetwo == [some |-> TRUE, v |-> 123456 * (Scale \div 100)]
          ascii == ReplaceChar(ReplaceChar(_ar_digits_to_ascii(v.s), "ar,", ","),
                               "ar.", ".")
      IN /\ v.t = "num" => got = [some |-> TRUE, v |-> v.v]
         /\ lang = "de" /\ v = Str(<<"1", ".", "2", "3", "4", ",", "5", "6">>) =>
              got = onetwo
         /\ lang = "en" /\ v = Str(<<"1", ",", "2", "3", "4", ".", "5", "6">>) =>
              got = onetwo
         /\ lang = "ar"
              /\ v = Str(<<"ar1", "ar,", "ar2", "ar3", "ar4", "ar.", "ar5", "ar6">>) =>
              got = onetwo
         /\ lang = "ar" /\ v.t = "str" =>
              LET f == PyFloatOfStr(RemoveChar(PyStrip(ascii), ","))
              IN got = IF f.ok THEN [some |-> TRUE, v |-> f.v]
                       ELSE [some |-> FALSE, v |-> 0]

\* The German notation parsed under de.
C16_GermanParsed ==
    /\ call_out.done /\ call_in.fn = "_to_float"
    /\ call_in.lang = "de"
    /\ call_in.v = Str(<<"1", ".", "2", "3", "4", ",", "5", "6">>)
    /\ call_out.value = [some |-> TRUE, v |-> 123456 * (Scale \div 100)]

\* C19: _parse_date_localized tries the patterns of the language in their
\* order and then the fallback list, the first that parses deciding:
\* "03/04/2025" is 2025-03-04 under en and 2025-04-03 under de and ar;
\* DD.MM.YYYY under en or ar is parsed through the fallbacks; a string no
\* pattern matches gives absence.
C19_FirstPatternDecides ==
    call_out.done /\ call_in.fn = "_parse_date_localized" =>
      LET raw == call_in.date_str
          lang == call_in.lang
          got == call_out.date
          Iso(m, d) == Some(<<"2", "0", "2", "5", "-">> \o m \o <<"-">> \o d)
          own == IF lang = "de" THEN <<FmtDMYdot, FmtDMYs, FmtDMYd, FmtISO>>
                 ELSE IF lang = "ar" THEN <<FmtDMYs, FmtISO, FmtDMYd>>
                 ELSE <<FmtISO, FmtMDYs, FmtMDYd, FmtDMYs, FmtDMYd>>
          tried == own \o <<FmtISO, FmtDMYs, FmtMDYs, FmtDMYd, FmtMDYd, FmtDMYdot>>
          clean == RemoveChar(ReplaceChar(_ar_digits_to_ascii(PyStrip(raw)),
                                          "ar.", "."), "ar,")
          parsing == {k \in 1..Len(tried) : Strptime(clean, tried[k]).ok}
      IN /\ raw = <<"0", "3", "/", "0", "4", "/", "2", "0", "2", "5">> =>
              got = IF lang = "en" THEN Iso(<<"0", "3">>, <<"0", "4">>)
                    ELSE Iso(<<"0", "4">>, <<"0", "3">>)
         /\ raw = <<"1", "0", ".", "0", "7", ".", "2", "0", "2", "5">> =>
              got = Iso(<<"0", "7">>, <<"1", "0">>)
         /\ parsing = {} => got = None
         /\ parsing # {} =>
              \E k \in parsing :
                 /\ \A j \in parsing : k <= j
                 /\ got = Some(Strftime(Strptime(clean, tried[k])))

\* The ambiguous date read month first under en.
C19_AmbiguousUnderEn ==
    /\ call_out.done /\ call_in.fn = "_parse_date_localized"
    /\ call_in.lang = "en"
    /\ call_in.date_str = <<"0", "3", "/", "0", "4", "/", "2", "0", "2", "5">>
    /\ call_out.date = Some(<<"2", "0", "2", "5", "-", "0", "3", "-", "0", "4">>)

\* ---- pipeline (SpecPipeline)

\* C18: the submission of vendor "Acme", invoice "A-1", tax id "DE123",
\* currency "EUR", one item Keyboard of quantity 3 at 35.0, date
\* "10.07.2025", no language tag and no override cue comes out with
\* total_amount 105.00, line_count 1, date 2025-07-10, tax region EU and
\* rate 0.19, whichever of en, de, ar the language resolver returns.
C18_ExampleSubmission ==
    /\ call_in.fn = "predict" /\ call_out.done
    /\ call_in.raw.date = <<"1", "0", ".", "0", "7", ".", "2", "0", "2", "5">>
    /\ call_in.raw.tax_id = <<"D", "E", "1", "2", "3">>
    /\ call_in.raw.currency = Some(EUR)
    /\ call_in.raw.items = <<RawItem(Keyboard, Num(3), Num(35 * Scale))>>
    /\ call_in.language = Absent
    => /\ call_out.at = "tax"
       /\ call_out.lang \in Langs
       /\ call_out.norm.total_amount = SomeNum(105 * Scale)
       /\ call_out.norm.line_count = 1
       /\ call_out.norm.date = Some(<<"2", "0", "2", "5", "-", "0", "7", "-", "1", "0">>)
       /\ call_out.tax.region = "EU" /\ call_out.tax.rate = 19

\* The example resolved to Arabic, where the dotted date is read through
\* the fallback list.
C18_ExampleUnderArabic ==
    /\ call_in.fn = "predict" /\ call_out.done /\ call_out.at = "tax"
    /\ call_in.raw.date = <<"1", "0", ".", "0", "7", ".", "2", "0", "2", "5">>
    /\ call_in.raw.tax_id = <<"D", "E", "1", "2", "3">>
    /\ call_in.raw.currency = Some(EUR)
    /\ call_in.raw.items = <<RawItem(Keyboard, Num(3), Num(35 * Scale))>>
    /\ call_in.language = Absent
    /\ call_out.lang = "ar"
    /\ call_out.norm.date = Some(<<"2", "0", "2", "5", "-", "0", "7", "-", "1", "0">>)
    /\ call_out.tax.region = "EU" /\ call_out.tax.rate = 19

\* ---- /predict (SpecPredict)

\* C20: after any /predict calls, the processed result stored for the row
\* of a key is the output of the /predict that completed last for that
\* key (a call completes when it has stored and returned its output; a
\* call answered with HTTP 400 has none); a duplicate submission is given
\* the original row's id, its output carries the duplicate warning and the
\* +0.25 duplicate bump, and it overwrites the result the first
\* submission stored.
C20_StoredIsLatestOutput ==
    /\ \A k \in Keys :
         plast[k] # 0 =>
           /\ pout[plast[k]].some
           /\ SelectIds(rows, k) = {pout[plast[k]].id}
           /\ processed[pout[plast[k]].id] = pout[plast[k]]
    /\ \A r \in Requests :
         pout[r].some =>
           /\ SelectIds(rows, skey[r]) = {pout[r].id}
           /\ sret[r].created <=> pout[r].id = NewId(r)
           /\ ~sret[r].created =>
                /\ pout[r].warnings = <<DuplicateWarning>>
                /\ \E i \in 1..Len(pout[r].fraud_reasons) :
                     pout[r].fraud_reasons[i] = ReasonDuplicate
                /\ pout[r].fraud_score =
                     Min(RiskCap, BaseRisk(ppc[r].raw) + DuplicateBump
                                    + MissingBump * Min(ppc[r].missing, MissingCap))
           /\ sret[r].created =>
                /\ pout[r].warnings = <<>>
                /\ \A i \in 1..Len(pout[r].fraud_reasons) :
                     pout[r].fraud_reasons[i] # ReasonDuplicate

\* The first submission of a key stored its result, and a duplicate of it
\* completed afterwards: the stored result is the duplicate's output, with
\* the warning and the whole bump of 0.25.
C20_DuplicateOverwrote ==
    \E r1, r2 \in Requests :
       /\ r1 # r2 /\ skey[r1] = skey[r2]
       /\ ppc[r1].at = "returned" /\ ppc[r2].at = "returned"
       /\ sret[r1].created /\ ~sret[r2].created
       /\ ppc[r1].raw = ppc[r2].raw /\ ppc[r1].missing = ppc[r2].missing
       /\ plast[skey[r1]] = r2
       /\ processed[NewId(r1)] = pout[r2]
       /\ pout[r2].warnings = <<DuplicateWarning>>
       /\ pout[r2].fraud_score = pout[r1].fraud_score + DuplicateBump

====
